---- MODULE Spec2Model ----
(***************************************************************************)
(* A model of simulator.py: the GeneralLedger (account registry, the two   *)
(* date-keyed event queues, sweep rules) and the day-by-day loop of        *)
(* __main__.                                                               *)
(*                                                                         *)
(* Time.  croniter works on instants; the program only ever uses their     *)
(* .date().  An instant is an integer number of slots, SlotsPerDay slots   *)
(* to a calendar day, so that a cron expression may have more than one     *)
(* occurrence on one date.  A date is an integer day number.               *)
(*                                                                         *)
(* Money.  Account values are Python floats.  They are modelled as a       *)
(* binary floating-point format with a MantBits-bit significand, round to  *)
(* nearest, ties to even, whose smallest unit is 1: every result of + and  *)
(* - on values is rounded the way the machine rounds it.                   *)
(***************************************************************************)
EXTENDS Integers, Sequences, FiniteSets, TLC

\* ------------------------------------------------------------------ bounds
MaxAccounts == 3     \* accounts of a configuration of plain holdings
MaxCashflows == 1    \* cashflows of a configuration
Today == 1           \* the date on which the program is run
HorizonDays == 2     \* end_date is at most this many days after Today
MantBits == 3        \* bits of a float's significand
SlotsPerDay == 2     \* instants of a day at which a schedule may occur
MaxPreciateCalls == 2  \* successive Preciate calls a client makes on one account

\* ------------------------------------------------------------- python values
\* None, for an exception slot, a date, a schedule and a sweep rule.
None == "None"
NoDate == -1
NoSpec == [period |-> 0, phase |-> 0]
NoRule == [sweep_account |-> "", amount |-> 0]
\* loan_months before LoadConfig assigns it: __init__ leaves it undefined.
UnsetMonths == -1

Abs(x) == IF x < 0 THEN -x ELSE x

\* str.lower() on the account names of the model's configurations.
Lower(s) == IF s = "Checking" THEN "checking" ELSE s

RawNames == {"checking", "Checking", "savings", "mortgage"}
Names == {Lower(s) : s \in RawNames}

\* The order in which a dict with these keys is iterated (a Python 2 dict
\* iterates in hash order: fixed for a given set of keys).
KeyOrder == <<"savings", "mortgage", "checking">>

\* ------------------------------------------------------------ float rounding
RECURSIVE UnitOf(_, _, _)
\* The spacing u of the floats around n/d >= 0: the least power of two with
\* n/d < 2^MantBits * u.
UnitOf(n, d, u) == IF n < (2 ^ MantBits) * u * d THEN u ELSE UnitOf(n, d, 2 * u)

\* n/d >= 0 rounded to the nearest float, ties to the even significand.
RoundPos(n, d) ==
  LET u == UnitOf(n, d, 1)
      q == n \div (d * u)
      r == n - q * d * u
      up == (2 * r > d * u) \/ (2 * r = d * u /\ q % 2 = 1)
  IN  (IF up THEN q + 1 ELSE q) * u

\* The float nearest to the rational n/d (d > 0).  x and y are the values of
\* n and d, computed once.
Fl(n, d) ==
  CHOOSE f \in {IF x < 0 THEN -RoundPos(-x, y) ELSE RoundPos(x, y) :
                  x \in {n}, y \in {d}} : TRUE

\* a + b on floats.
FAdd(a, b) == Fl(a + b, 1)

\* a - b on floats.
FSub(a, b) == Fl(a - b, 1)

RECURSIVE FSum(_)
\* sum(list): the builtin adds left to right, starting from 0.
FSum(s) == IF s = <<>> THEN 0 ELSE FAdd(FSum(SubSeq(s, 1, Len(s) - 1)), s[Len(s)])

\* ------------------------------------------------------------------ croniter
\* A cron expression is modelled by its occurrences: the instants t with
\* t % period = phase.
CronDaily == [period |-> SlotsPerDay, phase |-> 0]
CronHourly == [period |-> 1, phase |-> 0]
CronAlternate == [period |-> 2 * SlotsPerDay, phase |-> 0]
CronExprs == {CronDaily, CronHourly, CronAlternate}

\* datetime.date() of an instant.
DateOf(t) == t \div SlotsPerDay

\* The instant of midnight starting day d.
Midnight(d) == d * SlotsPerDay

\* croniter.get_next: the first occurrence strictly after the cursor.
CronNext(expr, cur) == cur + expr.period - ((cur - expr.phase) % expr.period)


\* ----------------------------------------------------------------- rationals
RECURSIVE Gcd(_, _)
Gcd(a, b) == IF b = 0 THEN a ELSE Gcd(b, a % b)

\* The fraction n/d (d > 0) in lowest terms: the exact value of an
\* intermediate result, rounded by Fl where the program stores it.  x and y
\* are the values of n and d, computed once.
Q(n, d) ==
  CHOOSE q \in {[n |-> x \div Gcd(Abs(x), y), d |-> y \div Gcd(Abs(x), y)] :
                  x \in {n}, y \in {d}} : TRUE
QAdd(x, y) == Q(x.n * y.d + y.n * x.d, x.d * y.d)
QSub(x, y) == Q(x.n * y.d - y.n * x.d, x.d * y.d)
QMul(x, y) == Q(x.n * y.n, x.d * y.d)
QInt(i) == [n |-> i, d |-> 1]
RECURSIVE QPow(_, _)
QPow(x, k) == IF k = 0 THEN QInt(1) ELSE QMul(x, QPow(x, k - 1))

\* -------------------------------------------------------------------- Account
\* 365.25, the days of a year in _RateFraction, times 100.
YearDaysTimes100 == 36525

\* The APRs of the model's configurations: 0, 12 (a monthly rate of 1),
\* 365.25 / 2 (half of the value per day) and 36 (a monthly rate of 3).
RateZero == QInt(0)
RateLoan == QInt(12)
RateDaily == Q(YearDaysTimes100, 200)
RateHigh == QInt(36)
Rates == {RateZero, RateLoan, RateDaily, RateHigh}

\* Account.__init__ followed by the attribute assignments of LoadConfig.
\* ap is the account's descriptor in the configuration; now is time.time(),
\* where a croniter built without a start time puts its cursor.
NewAccount(ap, now) ==
  [ name |-> Lower(ap.name),
    value |-> ap.value,
    rate |-> ap.rate,
    stddev |-> 0,
    sweep_out |-> IF ap.sweep_out.sweep_account # "" /\ ap.sweep_out.amount # 0
                  THEN ap.sweep_out ELSE NoRule,
    sweep_in |-> IF ap.sweep_in.sweep_account # "" /\ ap.sweep_in.amount # 0
                 THEN ap.sweep_in ELSE NoRule,
    timespec |-> ap.timespec,
    cur |-> IF ap.timespec # NoSpec THEN now ELSE 0,
    loan_months |-> IF ap.loan_months # 0 THEN ap.loan_months ELSE UnsetMonths,
    start_date |-> ap.start_date,
    amortization |-> <<>> ]

\* self._amortization.get(d, (None, None))[1], with 0 for the None of a
\* missing entry: Preciate only tests it for truth, and both are false.
Principle(acct, d) ==
  IF d \in DOMAIN acct.amortization THEN acct.amortization[d].principle ELSE 0

\* Account._RateFraction: (delta.days / 365.25) * rate.  stddev is 0.0 on
\* every account LoadConfig builds, so the rate is never randomized.
RateFraction(acct, next_date, current_date) ==
  QMul(Q((next_date - current_date) * 100, YearDaysTimes100), acct.rate)

\* Preciate with get_next called on the schedule itself, not on a copy.
PreciateAdvancing(acct) ==
  LET current_date == DateOf(acct.cur)
      next == CronNext(acct.timespec, acct.cur)
      principle == Principle(acct, current_date)
      grown == QMul(QInt(acct.value),
                    QAdd(QInt(1), RateFraction(acct, DateOf(next), current_date)))
  IN  IF principle # 0
      THEN [acct EXCEPT !.value = FAdd(acct.value, principle), !.cur = next]
      ELSE IF acct.name = "mortgage"
      THEN [acct EXCEPT !.cur = next]
      ELSE [acct EXCEPT !.value = Fl(grown.n, grown.d), !.cur = next]

\* Account.Preciate: the account after the call.
Preciate(acct) ==
  LET current_date == DateOf(acct.cur)
      next_date == DateOf(CronNext(acct.timespec, acct.cur))
      principle == Principle(acct, current_date)
      grown == QMul(QInt(acct.value), QAdd(QInt(1), RateFraction(acct, next_date, current_date)))
  IN  IF principle # 0
      THEN [acct EXCEPT !.value = FAdd(acct.value, principle)]
      ELSE IF acct.name = "mortgage"
      THEN acct
      ELSE [acct EXCEPT !.value = Fl(grown.n, grown.d)]

RECURSIVE AmortizationLoop(_, _, _, _, _, _, _)
\* The for loop of BuildAmortization: k entries still to build, the copied
\* schedule's cursor at cur.
AmortizationLoop(k, expr, cur, balance, payment, monthly_rate, table) ==
  IF k = 0 THEN table
  ELSE LET current == DateOf(cur)
           interest == QMul(monthly_rate, balance)
           principle == QSub(payment, interest)
           entry == [interest |-> Fl(interest.n, interest.d),
                     principle |-> Fl(principle.n, principle.d)]
           added == [d \in DOMAIN table \cup {current} |->
                       IF d = current THEN entry ELSE table[d]]
       IN  AmortizationLoop(k - 1, expr, CronNext(expr, cur), QSub(balance, principle),
                            payment, monthly_rate, added)

\* Account.BuildAmortization: [err, acct], err the exception raised.
BuildAmortization(acct) ==
  LET monthly_rate == QMul(acct.rate, Q(1, 12))
      balance == QInt(-acct.value)
      n == acct.loan_months
      growth == QPow(QAdd(QInt(1), monthly_rate), n)
      numerator == QMul(QMul(monthly_rate, balance), growth)
      denominator == QSub(growth, QInt(1))
      payment == QMul(numerator, [n |-> denominator.d, d |-> denominator.n])
  IN  IF acct.start_date = NoDate \/ acct.value > 0
      THEN [err |-> None, acct |-> acct]
      ELSE IF n = UnsetMonths
      THEN [err |-> "AttributeError", acct |-> acct]
      ELSE IF n = 0
      THEN [err |-> None, acct |-> acct]
      ELSE IF denominator.n = 0
      THEN [err |-> "ZeroDivisionError", acct |-> acct]
      ELSE IF acct.timespec = NoSpec
      THEN [err |-> "AttributeError", acct |-> acct]
      ELSE [err |-> None,
            acct |-> [acct EXCEPT !.amortization =
                        AmortizationLoop(n, acct.timespec, Midnight(acct.start_date),
                                         balance, payment, monthly_rate, <<>>)]]

\* --------------------------------------------------------- defaultdict(list)
\* d[k] of a defaultdict(list) read without creating the key.
QGet(q, k) == IF k \in DOMAIN q THEN q[k] ELSE <<>>

\* d[k].append(x)
QAppend(q, k, x) ==
  [j \in DOMAIN q \cup {k} |-> IF j = k THEN Append(QGet(q, k), x) ELSE q[j]]

\* QTop for a list drained from the front, pop(0).
QTopFirst(q, k) == q[k][1]

\* The element d[k].pop() returns: the last of the list.
QTop(q, k) == q[k][Len(q[k])]

\* d[k] after d[k].pop()
QPop(q, k) == [q EXCEPT ![k] = SubSeq(q[k], 1, Len(q[k]) - 1)]

\* The output of a run (lines 465-467): worth and every account's value;
\* NoRun while no run has finished.
NoRun == [done |-> FALSE, worth |-> 0, values |-> <<>>]

\* -------------------------------------------------------------- GeneralLedger
VARIABLES
  gl_proto,     \* the parsed configuration file (simulator_pb2.GeneralLedger)
  proto_pos,    \* how many descriptors the current loop of LoadConfig has read
  pc,           \* where the program is: a phase of LoadConfig or of the loop
  err,          \* the exception that ended the run, None while there is none
  variance,     \* FLAGS.variance
  now,          \* time.time() while the configuration is loaded
  objs,         \* the Account objects, in the order they were built
  accounts,     \* general_ledger.accounts: name -> index into objs
  flows,        \* the Cashflow objects, in the order they were built
  cashflows,    \* general_ledger.cashflows: date -> list of indexes into flows
  preciations,  \* general_ledger.preciations: date -> list of indexes into objs
  start_date,   \* general_ledger.start_date
  end_date,     \* general_ledger.end_date
  loop_date,    \* loop_date of __main__
  sweep_pos,    \* how many accounts the sweep loop of this day has visited
  last,         \* the step just taken and what it acted on
  processed,    \* the dates the loop has entered, in order
  applied,      \* per cashflow, the dates on which its amount was added
  preciated,    \* per account object, the dates on which Preciate was called
  first_run     \* what an earlier run from the same configuration printed

vars == <<first_run, gl_proto, proto_pos, pc, err, variance, now, objs, accounts, flows, cashflows, preciations,
          start_date, end_date, loop_date, sweep_pos, last, processed, applied,
          preciated>>

\* accounts.values(): the registered objects in the dict's iteration order.
RECURSIVE ValuesFrom(_, _)
ValuesFrom(reg, i) ==
  IF i > Len(KeyOrder) THEN <<>>
  ELSE IF KeyOrder[i] \in DOMAIN reg
       THEN <<reg[KeyOrder[i]]>> \o ValuesFrom(reg, i + 1)
       ELSE ValuesFrom(reg, i + 1)
AccountValues(reg) == ValuesFrom(reg, 1)

\* [x.value for x in self.accounts.values()]
Holdings == [i \in 1..Len(AccountValues(accounts)) |-> objs[AccountValues(accounts)[i]].value]

IsDebt(v) == v < 0
IsAsset(v) == v > 0

\* GeneralLedger.worth, .debt and .assets
worth == FSum(Holdings)
debt == FSum(SelectSeq(Holdings, IsDebt))
assets == FSum(SelectSeq(Holdings, IsAsset))

\* GeneralLedger.AddAccount: [err, objs, accounts, preciations] after the
\* call on a freshly built account.
AddAccount(account) ==
  LET built == IF account.start_date # NoDate
               THEN BuildAmortization(account)
               ELSE [err |-> None, acct |-> account]
      idx == Len(objs) + 1
      name == built.acct.name
  IN  IF built.err # None
      THEN [err |-> built.err, objs |-> objs, accounts |-> accounts,
            preciations |-> preciations]
      ELSE [err |-> None,
            objs |-> Append(objs, built.acct),
            accounts |-> [k \in DOMAIN accounts \cup {name} |->
                            IF k = name THEN idx ELSE accounts[k]],
            preciations |-> IF built.acct.timespec # NoSpec
                            THEN QAppend(preciations, DateOf(built.acct.cur), idx)
                            ELSE preciations]

\* Cashflow.__init__: the object LoadConfig builds from the descriptor cf.
\* SplitDate turns the empty string of an unset bound into None.
NewCashflow(cf, t) ==
  [ name |-> cf.name,
    account |-> cf.account,
    timespec |-> cf.timespec,
    cur |-> t,
    amount |-> cf.amount,
    starting |-> cf.start_date,
    ending |-> cf.end_date,
    stddev |-> cf.stddev ]

\* random.normalvariate(amount, stddev): any float; the model draws from the
\* mean and one deviation to either side.
NormalVariate(amount, stddev) == {FSub(amount, stddev), amount, FAdd(amount, stddev)}

\* The amounts the dispatch of cashflow f may add (lines 426-430).
FlowAmounts(f) ==
  IF f.stddev # 0 /\ variance THEN NormalVariate(f.amount, f.stddev) ELSE {f.amount}

\* NextPhase with the two dispatch loops in the other order.
NextPhaseSwapped(p) ==
  CASE p = "loop" -> "preciations"
    [] p = "preciations" -> "cashflows"
    [] p = "cashflows" -> "sweep"
    [] p = "sweep" -> "loop"

\* NextPhase for a loop whose body never returns to the test of line 416.
NextPhaseStuck(p) ==
  CASE p = "loop" -> "cashflows"
    [] p = "cashflows" -> "preciations"
    [] p = "preciations" -> "sweep"
    [] p = "sweep" -> "cashflows"

\* The phase that follows phase p within one pass of the while loop.
NextPhase(p) ==
  CASE p = "loop" -> "cashflows"
    [] p = "cashflows" -> "preciations"
    [] p = "preciations" -> "sweep"
    [] p = "sweep" -> "loop"

Step(op, obj) == [op |-> op, obj |-> obj]

Raise(e) == pc' = "error" /\ err' = e

\* ------------------------------------------------------------------ LoadConfig
\* Lines 306-315: parse the file, load the globals.
LoadGlobals ==
  /\ pc = "start"
  /\ start_date' = gl_proto.start_date
  /\ end_date' = gl_proto.end_date
  /\ pc' = "load_accounts"
  /\ proto_pos' = 0
  /\ last' = Step("LoadGlobals", 0)
  /\ UNCHANGED <<first_run, gl_proto, err, variance, now, objs, accounts, flows, cashflows,
                 preciations, loop_date, sweep_pos, processed, applied, preciated>>

\* Lines 318-335: one pass of the loop over gl_proto.account.
LoadAccount ==
  /\ pc = "load_accounts"
  /\ proto_pos < Len(gl_proto.account)
  /\ LET r == AddAccount(NewAccount(gl_proto.account[proto_pos + 1], now))
     IN  /\ objs' = r.objs
         /\ accounts' = r.accounts
         /\ preciations' = r.preciations
         /\ preciated' = [i \in 1..Len(r.objs) |-> IF i <= Len(objs) THEN preciated[i] ELSE <<>>]
         /\ IF r.err # None
            THEN Raise(r.err) /\ UNCHANGED proto_pos
            ELSE proto_pos' = proto_pos + 1 /\ UNCHANGED <<pc, err>>
         /\ last' = Step("AddAccount", Len(r.objs))
  /\ UNCHANGED <<first_run, gl_proto, variance, now, flows, cashflows, start_date, end_date,
                 loop_date, sweep_pos, processed, applied>>

\* The loop over gl_proto.account is exhausted.
AccountsLoaded ==
  /\ pc = "load_accounts"
  /\ proto_pos = Len(gl_proto.account)
  /\ pc' = "load_cashflows"
  /\ proto_pos' = 0
  /\ last' = Step("AccountsLoaded", 0)
  /\ UNCHANGED <<first_run, gl_proto, err, variance, now, objs, accounts, flows, cashflows,
                 preciations, start_date, end_date, loop_date, sweep_pos, processed,
                 applied, preciated>>

\* Lines 338-344: one pass of the loop over gl_proto.cashflow.
LoadCashflow ==
  /\ pc = "load_cashflows"
  /\ proto_pos < Len(gl_proto.cashflow)
  /\ LET cashflow == NewCashflow(gl_proto.cashflow[proto_pos + 1], now)
         cron_date == DateOf(cashflow.cur)
         idx == Len(flows) + 1
     IN  /\ flows' = Append(flows, cashflow)
         /\ cashflows' = QAppend(cashflows, cron_date, idx)
         /\ applied' = Append(applied, <<>>)
         /\ last' = Step("LoadCashflow", idx)
  /\ proto_pos' = proto_pos + 1
  /\ UNCHANGED <<first_run, gl_proto, pc, err, variance, now, objs, accounts, preciations,
                 start_date, end_date, loop_date, sweep_pos, processed, preciated>>

\* LoadConfig returns; line 413.
ConfigLoaded ==
  /\ pc = "load_cashflows"
  /\ proto_pos = Len(gl_proto.cashflow)
  /\ pc' = "loop"
  /\ loop_date' = start_date
  /\ last' = Step("ConfigLoaded", 0)
  /\ UNCHANGED <<first_run, gl_proto, proto_pos, err, variance, now, objs, accounts, flows,
                 cashflows, preciations, start_date, end_date, sweep_pos, processed,
                 applied, preciated>>

\* ------------------------------------------------------------- the day loop
\* LoopCondition with <= for <.
LoopConditionInclusive(date, end) == date <= end

\* Line 416: the condition of the while loop.
LoopCondition(date, end) == date < end

\* Lines 416-418: the loop test and the step to the next day.
LoopTest ==
  /\ pc = "loop"
  /\ IF LoopCondition(loop_date, end_date)
     THEN /\ loop_date' = loop_date + 1
          /\ processed' = Append(processed, loop_date + 1)
          /\ pc' = NextPhase("loop")
     ELSE /\ pc' = "done"
          /\ UNCHANGED <<loop_date, processed>>
  /\ sweep_pos' = 0
  /\ last' = Step("LoopTest", 0)
  /\ UNCHANGED <<first_run, gl_proto, proto_pos, err, variance, now, objs, accounts, flows,
                 cashflows, preciations, start_date, end_date, applied, preciated>>

\* Lines 421-422: is a cashflow queued under loop_date?
FlowDue == loop_date \in DOMAIN cashflows /\ cashflows[loop_date] # <<>>

\* Lines 423-436: pop one cashflow, add its amount, queue it under its next date.
DispatchCashflow ==
  /\ pc = "cashflows"
  /\ FlowDue
  /\ LET idx == QTop(cashflows, loop_date)
         popped == flows[idx]
         rest == QPop(cashflows, loop_date)
         next == CronNext(popped.timespec, popped.cur)
     IN  IF popped.account \notin DOMAIN accounts
         THEN /\ Raise("KeyError")
              /\ cashflows' = rest
              /\ UNCHANGED <<objs, flows, applied>>
         ELSE \E amount \in FlowAmounts(popped) :
                /\ objs' = [objs EXCEPT ![accounts[popped.account]].value = FAdd(@, amount)]
                /\ flows' = [flows EXCEPT ![idx].cur = next]
                /\ cashflows' = QAppend(rest, DateOf(next), idx)
                /\ applied' = [applied EXCEPT ![idx] = Append(@, loop_date)]
                /\ UNCHANGED <<pc, err>>
  /\ last' = Step("DispatchCashflow", QTop(cashflows, loop_date))
  /\ UNCHANGED <<first_run, gl_proto, proto_pos, variance, now, accounts, preciations, start_date,
                 end_date, loop_date, sweep_pos, processed, preciated>>

\* The while loop of line 422 ends (or line 421 found nothing).
CashflowsDone ==
  /\ pc = "cashflows"
  /\ ~FlowDue
  /\ pc' = NextPhase("cashflows")
  /\ last' = Step("CashflowsDone", 0)
  /\ UNCHANGED <<first_run, gl_proto, proto_pos, err, variance, now, objs, accounts, flows,
                 cashflows, preciations, start_date, end_date, loop_date, sweep_pos,
                 processed, applied, preciated>>

\* Lines 439-441: is an account queued under loop_date?
PreciationDue == loop_date \in DOMAIN preciations /\ preciations[loop_date] # <<>>

\* Stalled with the test of line 447 left out.
StalledNever(next_date, current_date) == FALSE

\* Line 447: has the schedule failed to reach another date?
Stalled(next_date, current_date) == next_date = current_date

\* Lines 442-451: pop one account, preciate it, queue it under its next date.
DispatchPreciation ==
  /\ pc = "preciations"
  /\ PreciationDue
  /\ LET idx == QTop(preciations, loop_date)
         rest == QPop(preciations, loop_date)
         popped == Preciate(objs[idx])
         current_date == DateOf(popped.cur)
         next == CronNext(popped.timespec, popped.cur)
         next_date == DateOf(next)
     IN  /\ objs' = [objs EXCEPT ![idx] = [popped EXCEPT !.cur = next]]
         /\ preciated' = [preciated EXCEPT ![idx] = Append(@, loop_date)]
         /\ IF Stalled(next_date, current_date)
            THEN Raise("CronError") /\ preciations' = rest
            ELSE preciations' = QAppend(rest, next_date, idx) /\ UNCHANGED <<pc, err>>
         /\ last' = Step("DispatchPreciation", idx)
  /\ UNCHANGED <<first_run, gl_proto, proto_pos, variance, now, accounts, flows, cashflows,
                 start_date, end_date, loop_date, sweep_pos, processed, applied>>

\* The while loop of line 441 ends (or line 439 found nothing).
PreciationsDone ==
  /\ pc = "preciations"
  /\ ~PreciationDue
  /\ pc' = NextPhase("preciations")
  /\ sweep_pos' = 0
  /\ last' = Step("PreciationsDone", 0)
  /\ UNCHANGED <<first_run, gl_proto, proto_pos, err, variance, now, objs, accounts, flows,
                 cashflows, preciations, start_date, end_date, loop_date, processed,
                 applied, preciated>>

\* Lines 455-464 on one account: [err, objs] after the pass of the sweep
\* loop that visits object src.
SweepOut(src) ==
  LET account == objs[src]
      amount == account.sweep_out.amount
      name == account.sweep_out.sweep_account
      destination == accounts[name]
      move == FSub(account.value, amount)
      debited == [objs EXCEPT ![src].value = FSub(@, move)]
  IN  IF account.sweep_out = NoRule
      THEN [err |-> None, objs |-> objs]
      ELSE IF name \notin DOMAIN accounts
      THEN [err |-> "KeyError", objs |-> objs]
      ELSE IF account.value > amount
      THEN [err |-> None, objs |-> [debited EXCEPT ![destination].value = FAdd(@, move)]]
      ELSE [err |-> None, objs |-> objs]

\* One pass of the for loop of line 454.
SweepAccount ==
  /\ pc = "sweep"
  /\ sweep_pos < Len(AccountValues(accounts))
  /\ LET src == AccountValues(accounts)[sweep_pos + 1]
         r == SweepOut(src)
     IN  /\ objs' = r.objs
         /\ IF r.err # None THEN Raise(r.err) ELSE UNCHANGED <<pc, err>>
         /\ last' = Step("SweepAccount", src)
  /\ sweep_pos' = sweep_pos + 1
  /\ UNCHANGED <<first_run, gl_proto, proto_pos, variance, now, accounts, flows, cashflows,
                 preciations, start_date, end_date, loop_date, processed, applied,
                 preciated>>

\* The for loop of line 454 is exhausted: back to the loop test.
SweepDone ==
  /\ pc = "sweep"
  /\ sweep_pos = Len(AccountValues(accounts))
  /\ pc' = NextPhase("sweep")
  /\ last' = Step("SweepDone", 0)
  /\ UNCHANGED <<first_run, gl_proto, proto_pos, err, variance, now, objs, accounts, flows,
                 cashflows, preciations, start_date, end_date, loop_date, sweep_pos,
                 processed, applied, preciated>>

\* ------------------------------------------- the ledger's other methods
\* Lines 240 and 244: `account.sweep_in not in self.accounts` looks a
\* SweepRule object (or None) up among the account names, which are strings:
\* it is never found, whatever the rule names.
RuleInRegistry(rule) == FALSE

\* GeneralLedger.ValidateSweeps: the exception it raises, None when it
\* returns.  The first account visited fails the test of line 240, and the
\* raise statement then formats a two-place message with one argument, which
\* raises TypeError before InvalidSweepError is built.
ValidateSweeps ==
  IF AccountValues(accounts) = <<>> THEN None
  ELSE LET account == objs[AccountValues(accounts)[1]]
       IN  IF ~RuleInRegistry(account.sweep_in) THEN "TypeError"
           ELSE IF ~RuleInRegistry(account.sweep_out) THEN "TypeError"
           ELSE None

\* GeneralLedger.Sweep: the exception it raises, None when it returns.
\* Line 252 iterates over the dict itself, that is over the names, and line
\* 253 reads .sweep_out of a str.
Sweep == IF AccountValues(accounts) = <<>> THEN None ELSE "AttributeError"

\* A client's call returns: the client makes one call on the loaded ledger.
Return == pc' = "returned" /\ UNCHANGED err

\* A client calls ValidateSweeps on the loaded ledger.
CallValidateSweeps ==
  /\ pc = "loop"
  /\ loop_date = start_date
  /\ IF ValidateSweeps # None THEN Raise(ValidateSweeps) ELSE Return
  /\ last' = Step("ValidateSweeps", 0)
  /\ UNCHANGED <<first_run, gl_proto, proto_pos, variance, now, objs, accounts, flows, cashflows,
                 preciations, start_date, end_date, loop_date, sweep_pos, processed,
                 applied, preciated>>

\* A client calls Sweep on the loaded ledger.
CallSweep ==
  /\ pc = "loop"
  /\ loop_date = start_date
  /\ IF Sweep # None THEN Raise(Sweep) ELSE Return
  /\ last' = Step("Sweep", 0)
  /\ UNCHANGED <<first_run, gl_proto, proto_pos, variance, now, objs, accounts, flows, cashflows,
                 preciations, start_date, end_date, loop_date, sweep_pos, processed,
                 applied, preciated>>

\* GeneralLedger.CreditAccount(account, amount), called by a client.
CreditAccount(account, amount) ==
  /\ pc = "loop"
  /\ loop_date = start_date
  /\ IF account \in DOMAIN accounts
     THEN /\ objs' = [objs EXCEPT ![accounts[account]].value = FAdd(@, amount)]
          /\ Return
     ELSE Raise("KeyError") /\ UNCHANGED objs
  /\ last' = Step("CreditAccount", 0)
  /\ UNCHANGED <<first_run, gl_proto, proto_pos, variance, now, accounts, flows, cashflows,
                 preciations, start_date, end_date, loop_date, sweep_pos, processed,
                 applied, preciated>>

\* GeneralLedger.DebitAccount(account, amount), called by a client.
DebitAccount(account, amount) ==
  /\ pc = "loop"
  /\ loop_date = start_date
  /\ IF account \in DOMAIN accounts
     THEN /\ objs' = [objs EXCEPT ![accounts[account]].value = FSub(@, amount)]
          /\ Return
     ELSE Raise("KeyError") /\ UNCHANGED objs
  /\ last' = Step("DebitAccount", 0)
  /\ UNCHANGED <<first_run, gl_proto, proto_pos, variance, now, accounts, flows, cashflows,
                 preciations, start_date, end_date, loop_date, sweep_pos, processed,
                 applied, preciated>>

\* Account.Preciate called by a client on a registered account, as
\* testAccount does; an account without a schedule has timespec None, which
\* has no get_current.
CallPreciate(name) ==
  /\ pc = "loop"
  /\ loop_date = start_date
  /\ name \in DOMAIN accounts
  /\ LET i == accounts[name]
     IN  /\ Len(preciated[i]) < MaxPreciateCalls
         /\ IF objs[i].timespec = NoSpec
            THEN Raise("AttributeError") /\ UNCHANGED <<objs, preciated>>
            ELSE /\ objs' = [objs EXCEPT ![i] = Preciate(objs[i])]
                 /\ preciated' = [preciated EXCEPT ![i] = Append(@, loop_date)]
                 /\ UNCHANGED <<pc, err>>
         /\ last' = Step("Preciate", i)
  /\ UNCHANGED <<first_run, gl_proto, proto_pos, variance, now, accounts, flows, cashflows,
                 preciations, start_date, end_date, loop_date, sweep_pos, processed,
                 applied>>

\* ------------------------------------------------------- the configurations
\* The sequences over S of length at most n.
SeqsUpTo(S, n) == UNION {[1..k -> S] : k \in 0..n}

\* An account descriptor with every optional field at its protobuf default.
AccountProto(name, value) ==
  [name |-> name, value |-> value, rate |-> RateZero, sweep_out |-> NoRule,
   sweep_in |-> NoRule, timespec |-> NoSpec, loan_months |-> 0, start_date |-> NoDate]

CashflowProto(name, account, timespec, amount, stddev) ==
  [name |-> name, account |-> account, timespec |-> timespec, amount |-> amount,
   start_date |-> NoDate, end_date |-> NoDate, stddev |-> stddev]

ConfigValues == {-3, 2, 7}
Watermarks == {1}
SweepRules == {[sweep_account |-> d, amount |-> a] : d \in RawNames, a \in Watermarks}

\* Holdings without schedules or rules, as in testGeneralLedger.
PlainAccounts == {AccountProto(n, v) : n \in RawNames, v \in ConfigValues}
HoldingConfigs ==
  {[account |-> a, cashflow |-> <<>>, start_date |-> Today - 1, end_date |-> Today,
    now |-> Midnight(Today), variance |-> FALSE] : a \in SeqsUpTo(PlainAccounts, MaxAccounts)}

\* Two accounts with sweep rules.
SweepAccounts ==
  {[AccountProto(n, v) EXCEPT !.sweep_out = o, !.sweep_in = i] :
     n \in {"checking", "savings"}, v \in ConfigValues,
     o \in SweepRules \cup {NoRule},
     i \in {NoRule, [sweep_account |-> "savings", amount |-> 1]}}
SweepConfigs ==
  {[account |-> <<a, b>>, cashflow |-> <<>>, start_date |-> Today - 1,
    end_date |-> Today + 1, now |-> Midnight(Today), variance |-> FALSE] :
     a \in SweepAccounts, b \in SweepAccounts}

\* time.time(): the instants of Today at which the program may be started.
RunTimes == {Midnight(Today), Midnight(Today) + 1}

\* Scheduled accounts and cashflows, run at different times of Today against
\* different date ranges.
ScheduledAccounts ==
  {[AccountProto(n, 7) EXCEPT !.rate = RateDaily, !.timespec = t] :
     n \in {"savings", "Checking"}, t \in CronExprs}
Cashflows ==
  {CashflowProto("pay", n, t, 3, 0) : n \in {"checking", "Checking"}, t \in CronExprs}
ScheduleConfigs ==
  {[account |-> a, cashflow |-> c, start_date |-> s, end_date |-> e, now |-> t,
    variance |-> FALSE] :
     a \in SeqsUpTo(ScheduledAccounts, 2), c \in SeqsUpTo(Cashflows, MaxCashflows),
     s \in {Today - 1, Today}, e \in {Today - 1, Today + HorizonDays},
     t \in RunTimes}

\* A scheduled account that sweeps, a second scheduled account and a cashflow.
SweptAccounts ==
  {[a EXCEPT !.sweep_out = [sweep_account |-> "checking", amount |-> 1]] :
     a \in ScheduledAccounts}
MixedConfigs ==
  {[account |-> <<a, b>>, cashflow |-> <<c>>, start_date |-> Today - 1,
    end_date |-> Today + HorizonDays, now |-> Midnight(Today), variance |-> FALSE] :
     a \in SweptAccounts, b \in ScheduledAccounts, c \in Cashflows}

\* A cashflow with and without a deviation, run with and without --variance.
VarianceConfigs ==
  {[account |-> <<AccountProto("checking", 2)>>,
    cashflow |-> <<CashflowProto("bill", "checking", CronDaily, -3, d)>>,
    start_date |-> Today - 1, end_date |-> Today + HorizonDays,
    now |-> Midnight(Today), variance |-> v] : d \in {0, 1}, v \in BOOLEAN}

\* One account with the attributes of a loan.
LoanAccounts ==
  {[AccountProto(n, v) EXCEPT !.rate = r, !.timespec = t, !.loan_months = m,
                              !.start_date = Today] :
     n \in {"mortgage", "savings"}, v \in {-3, 2}, r \in {RateZero, RateLoan},
     t \in {NoSpec, CronDaily, CronHourly}, m \in {0, 2}}
LoanConfigs ==
  {[account |-> <<a>>, cashflow |-> <<>>, start_date |-> Today - 1,
    end_date |-> Today + HorizonDays, now |-> Midnight(Today), variance |-> FALSE] :
     a \in LoanAccounts}

\* One plain account and one or two cashflows on it, with and without a
\* first and a last date, run at different times of Today.
BoundedCashflows ==
  {[CashflowProto("pay", "checking", t, 1, 0) EXCEPT !.start_date = s, !.end_date = e] :
     t \in {CronDaily, CronHourly}, s \in {NoDate, Today + 1}, e \in {NoDate, Today + 1}}
SecondCashflows == {CashflowProto("rent", "checking", t, -1, 0) : t \in {CronDaily, CronHourly}}
FlowConfigs ==
  {[account |-> <<AccountProto("checking", 2)>>, cashflow |-> c, start_date |-> Today - 1,
    end_date |-> Today + HorizonDays, now |-> t, variance |-> FALSE] :
     c \in {<<b>> : b \in BoundedCashflows}
              \cup {<<b, r>> : b \in BoundedCashflows, r \in SecondCashflows},
     t \in RunTimes}

\* A loan account opened at 0 and drawn by a cashflow, and a loan whose
\* start date is the day after the program is run.
DrawnLoanConfigs ==
  {[account |-> <<[AccountProto(n, 0) EXCEPT !.rate = RateHigh, !.timespec = CronDaily,
                                              !.loan_months = 2, !.start_date = Today]>>,
    cashflow |-> <<CashflowProto("draw", n, CronDaily, -7, 0)>>,
    start_date |-> Today - 1, end_date |-> Today + HorizonDays,
    now |-> Midnight(Today), variance |-> FALSE] : n \in {"mortgage", "savings"}}
LateLoanConfigs ==
  {[account |-> <<[AccountProto(n, -7) EXCEPT !.rate = RateHigh, !.timespec = CronDaily,
                                               !.loan_months = 2, !.start_date = Today + 1]>>,
    cashflow |-> <<>>, start_date |-> Today - 1, end_date |-> Today + HorizonDays,
    now |-> Midnight(Today), variance |-> FALSE] : n \in {"mortgage", "savings"}}

Configs ==
  HoldingConfigs \cup SweepConfigs \cup ScheduleConfigs \cup MixedConfigs
    \cup VarianceConfigs \cup LoanConfigs \cup FlowConfigs \cup DrawnLoanConfigs
    \cup LateLoanConfigs

\* ------------------------------------------------------------ specification
\* The state after GeneralLedger() (lines 209-212, 406-410).
InitFrom(configs) ==
  /\ \E c \in configs :
       /\ gl_proto = [account |-> c.account, cashflow |-> c.cashflow,
                      start_date |-> c.start_date, end_date |-> c.end_date]
       /\ now = c.now
       /\ variance = c.variance
  /\ first_run = NoRun
  /\ proto_pos = 0
  /\ pc = "start"
  /\ err = None
  /\ objs = <<>>
  /\ accounts = <<>>
  /\ flows = <<>>
  /\ cashflows = <<>>
  /\ preciations = <<>>
  /\ start_date = NoDate
  /\ end_date = NoDate
  /\ loop_date = NoDate
  /\ sweep_pos = 0
  /\ last = Step("Init", 0)
  /\ processed = <<>>
  /\ applied = <<>>
  /\ preciated = <<>>

Init == InitFrom(Configs)

Next ==
  \/ LoadGlobals
  \/ LoadAccount
  \/ AccountsLoaded
  \/ LoadCashflow
  \/ ConfigLoaded
  \/ LoopTest
  \/ DispatchCashflow
  \/ CashflowsDone
  \/ DispatchPreciation
  \/ PreciationsDone
  \/ SweepAccount
  \/ SweepDone

Spec == Init /\ [][Next]_vars

\* Lines 465-467: what the finished run prints.
Output == [done |-> TRUE, worth |-> worth, values |-> [i \in 1..Len(objs) |-> objs[i].value]]

\* The program is started once more on the same configuration file, at some
\* time of Today; the output of the run that has finished is kept.
Rerun ==
  /\ pc = "done"
  /\ ~first_run.done
  /\ first_run' = Output
  /\ now' \in RunTimes
  /\ proto_pos' = 0
  /\ pc' = "start"
  /\ objs' = <<>>
  /\ accounts' = <<>>
  /\ flows' = <<>>
  /\ cashflows' = <<>>
  /\ preciations' = <<>>
  /\ start_date' = NoDate
  /\ end_date' = NoDate
  /\ loop_date' = NoDate
  /\ sweep_pos' = 0
  /\ last' = Step("Rerun", 0)
  /\ processed' = <<>>
  /\ applied' = <<>>
  /\ preciated' = <<>>
  /\ UNCHANGED <<gl_proto, variance, err>>

NextRuns == Next \/ Rerun

SpecRuns == Init /\ [][NextRuns]_vars

\* The program is one sequential process: the interpreter always executes
\* the statement it stands on, so a step that is possible is eventually
\* taken.  The runs are those of a sweeping account, a second scheduled
\* account and a cashflow under every combination of schedules, and those of
\* the cashflow families.
InitLive == InitFrom(MixedConfigs \cup VarianceConfigs \cup FlowConfigs)

SpecLive == InitLive /\ [][Next]_vars /\ WF_vars(Next)

\* A client that loads a configuration and then calls the ledger's methods
\* itself, as the unit tests do, instead of running the loop.
NextLedger ==
  \/ LoadGlobals
  \/ LoadAccount
  \/ AccountsLoaded
  \/ LoadCashflow
  \/ ConfigLoaded
  \/ CallValidateSweeps
  \/ CallSweep
  \/ \E n \in RawNames : CreditAccount(n, 3)
  \/ \E n \in RawNames : DebitAccount(n, 3)
  \/ \E n \in Names : CallPreciate(n)

InitLedger ==
  InitFrom(HoldingConfigs \cup SweepConfigs \cup VarianceConfigs \cup LoanConfigs
             \cup DrawnLoanConfigs \cup LateLoanConfigs)

SpecLedger == InitLedger /\ [][NextLedger]_vars

\* ------------------------------------------------------------------ claims
\* The registered objects, as a set.
Registered == {accounts[k] : k \in DOMAIN accounts}

\* Does the schedule expr have an occurrence on date d?
OccursOn(expr, d) == \E t \in Midnight(d)..(Midnight(d + 1) - 1) : t % expr.period = expr.phase

\* The dates d with first <= d <= final, in increasing order.
RECURSIVE DateRange(_, _)
DateRange(first, final) ==
  IF first > final THEN <<>> ELSE <<first>> \o DateRange(first + 1, final)

\* The dates of the window start_date < d <= end_date on which expr occurs.
OccurrenceDates(expr) ==
  LET Due(d) == OccursOn(expr, d) IN SelectSeq(DateRange(start_date + 1, end_date), Due)

\* The queue slots that hold x, as <<date, position>> pairs.
Slots(q, x) == {<<k, i>> \in UNION {{k} \X (1..Len(q[k])) : k \in DOMAIN q} : q[k][i] = x}

\* C1: in every reachable ledger state worth equals assets plus debt.
C1_WorthIsAssetsPlusDebt == worth = FAdd(assets, debt)

\* C2: within a day every due cashflow is applied before any preciation, and
\* every due preciation before any sweep transfer: when an account is
\* preciated no cashflow is queued under the day, when the sweep visits an
\* account neither a cashflow nor an account is queued under the day, and the
\* same holds as long as the program is in those phases.
C2_CashflowsThenPreciationsThenSweeps ==
  /\ last.op = "DispatchPreciation" => ~FlowDue
  /\ last.op = "SweepAccount" => ~FlowDue /\ ~PreciationDue
  /\ pc \in {"preciations", "sweep"} => ~FlowDue
  /\ pc = "sweep" => ~PreciationDue

\* A sweep transfer on a day on which a cashflow and a preciation were applied.
C2_Witness ==
  /\ last.op = "SweepAccount"
  /\ err = None
  /\ objs[last.obj].sweep_out # NoRule
  /\ objs[last.obj].value = objs[last.obj].sweep_out.amount
  /\ \E i \in 1..Len(flows) : applied[i] # <<>> /\ applied[i][Len(applied[i])] = loop_date
  /\ \E j \in 1..Len(objs) : preciated[j] # <<>> /\ preciated[j][Len(preciated[j])] = loop_date

\* The program is in the day loop, or has left it.
InLoop == pc \in {"loop", "cashflows", "preciations", "sweep", "done"} \/ processed # <<>>

\* C3 as stated: when the loop stops it has processed exactly the dates
\* start_date < d <= end_date, each once and in order, and the current date
\* equals end_date.
C3_StopsAtEndDate ==
  pc = "done" => loop_date = end_date /\ processed = DateRange(start_date + 1, end_date)

\* C3, amended: the loop enters the dates start_date + 1, start_date + 2, ...
\* one day apart, each once, and none after end_date; when it stops it has
\* entered exactly the dates start_date < d <= end_date, and the current date
\* is end_date if start_date <= end_date and start_date otherwise.
C3_LoopDates ==
  /\ InLoop => /\ processed = DateRange(start_date + 1, loop_date)
               /\ processed # <<>> => loop_date <= end_date
  /\ pc = "done" => /\ processed = DateRange(start_date + 1, end_date)
                    /\ loop_date = IF start_date <= end_date THEN end_date ELSE start_date

\* The loop has stopped after entering every date of a window of several days.
C3_Witness == pc = "done" /\ Len(processed) = HorizonDays + 1

\* C4: with variance disabled a cashflow's amount is added exactly once on
\* every date of the window on which its schedule occurs, and on no other.
C4_FlowAppliedOnOccurrences ==
  (pc = "done" /\ ~variance) =>
    \A i \in 1..Len(flows) : applied[i] = OccurrenceDates(flows[i].timespec)

\* C5: an account added with a schedule is preciated exactly once on every
\* date of the window on which its schedule occurs.
C5_AccountPreciatedOnOccurrences ==
  pc = "done" =>
    \A i \in 1..Len(objs) :
      objs[i].timespec # NoSpec => preciated[i] = OccurrenceDates(objs[i].timespec)

\* C6: the preciation step raises CronError and does not queue the account
\* again exactly when the schedule's next date equals its current date;
\* otherwise it queues the account once more, under the next date, which is
\* later than the day being processed.
C6_StalledScheduleAborts ==
  [][last'.op = "DispatchPreciation" =>
       LET i == last'.obj
           current_date == DateOf(objs[i].cur)
           next_date == DateOf(objs'[i].cur)
       IN  IF next_date = current_date
           THEN pc' = "error" /\ err' = "CronError" /\ Slots(preciations', i) = {}
           ELSE /\ err' = None /\ pc' = pc
                /\ next_date > loop_date
                /\ Slots(preciations', i) = {<<next_date, Len(preciations'[next_date])>>}]_vars

\* A schedule with two occurrences on one date has stopped the run.
C6_Witness == last.op = "DispatchPreciation" /\ err = "CronError"

\* C7: a sweep_out rule on an account above its watermark leaves the source
\* at the watermark, adds exactly the difference to the destination, changes
\* no other account and keeps worth; at or below the watermark it changes
\* nothing.
C7_SweepOutMovesExcess ==
  [][(last'.op = "SweepAccount" /\ objs[last'.obj].sweep_out # NoRule
        /\ objs[last'.obj].sweep_out.sweep_account \in DOMAIN accounts) =>
       LET src == last'.obj
           dst == accounts[objs[src].sweep_out.sweep_account]
           watermark == objs[src].sweep_out.amount
           move == objs[src].value - watermark
       IN  IF objs[src].value > watermark
           THEN /\ objs'[src].value = watermark
                /\ objs'[dst].value = objs[dst].value + move
                /\ \A k \in 1..Len(objs) : k \notin {src, dst} => objs'[k] = objs[k]
                /\ worth' = worth
           ELSE objs' = objs]_vars

\* C8: in the day's sweep step a sweep_in rule on an account below its
\* watermark raises the account to the watermark with money taken from the
\* rule's account.
C8_SweepInFillsDeficit ==
  [][(last'.op = "SweepAccount" /\ err' = None /\ objs[last'.obj].sweep_in # NoRule
        /\ objs[last'.obj].sweep_in.sweep_account \in DOMAIN accounts
        /\ objs[last'.obj].value < objs[last'.obj].sweep_in.amount) =>
       LET src == last'.obj
           dst == accounts[objs[src].sweep_in.sweep_account]
           watermark == objs[src].sweep_in.amount
       IN  /\ objs'[src].value = watermark
           /\ dst # src => objs'[dst].value = objs[dst].value - (watermark - objs[src].value)]_vars

\* Some registered account has a rule that names no registered account.
Dangling ==
  \E i \in Registered :
    \/ objs[i].sweep_out # NoRule /\ objs[i].sweep_out.sweep_account \notin DOMAIN accounts
    \/ objs[i].sweep_in # NoRule /\ objs[i].sweep_in.sweep_account \notin DOMAIN accounts

\* C9: ValidateSweeps raises InvalidSweepError exactly when a rule names an
\* account that is not registered, and returns otherwise.
C9_ValidateSweepsFindsDangling ==
  last.op = "ValidateSweeps" =>
    /\ (err = "InvalidSweepError") <=> Dangling
    /\ ~Dangling => err = None

\* C10: AddAccount under a name that is already registered fails and leaves
\* the registry and the preciation queue as they were.
C10_DuplicateAccountRejected ==
  [][(last'.op = "AddAccount"
        /\ Lower(gl_proto.account[proto_pos + 1].name) \in DOMAIN accounts) =>
       /\ err' = "DuplicateAccountError"
       /\ accounts' = accounts
       /\ preciations' = preciations]_vars

\* C11: a run whose configuration has a sweep rule that names no registered
\* account is aborted before the first simulated day: it enters no day,
\* applies no cashflow, preciates no account, leaves every balance at its
\* configured value and does not run to the end.
C11_DanglingSweepAbortsBeforeFirstDay ==
  (Dangling /\ pc \notin {"start", "load_accounts", "load_cashflows"}) =>
    /\ processed = <<>>
    /\ pc # "done"
    /\ \A i \in 1..Len(flows) : applied[i] = <<>>
    /\ \A i \in 1..Len(objs) : preciated[i] = <<>> /\ objs[i].value = gl_proto.account[i].value

\* C12: with variance disabled, a second run from the same configuration
\* ends with the same value for every account and the same worth as the
\* first.
C12_SameConfigurationSameResult ==
  (pc = "done" /\ first_run.done /\ ~variance) => Output = first_run

\* C13: for an account with a start date, a value that is not positive,
\* loan_months = n > 0, a rate and a schedule, BuildAmortization (called by
\* AddAccount) produces a table of exactly n entries, the first under
\* start_date.
C13_AmortizationHasLoanMonthsEntries ==
  [][LET ap == gl_proto.account[proto_pos + 1]
     IN  (last'.op = "AddAccount" /\ ap.start_date # NoDate /\ ap.value <= 0
            /\ ap.loan_months > 0 /\ ap.rate # RateZero /\ ap.timespec # NoSpec) =>
           /\ err' = None
           /\ Cardinality(DOMAIN objs'[Len(objs')].amortization) = ap.loan_months
           /\ ap.start_date \in DOMAIN objs'[Len(objs')].amortization]_vars

\* C14: when the amortization table has an entry for the schedule's current
\* date, Preciate changes the value by exactly the entry's principal
\* component, whatever it is, and by nothing else.
C14_AmortizationEntryPaysPrincipal ==
  [][LET i == last'.obj
         current_date == DateOf(objs[i].cur)
     IN  (last'.op = "DispatchPreciation" /\ current_date \in DOMAIN objs[i].amortization) =>
           objs'[i].value = objs[i].value + objs[i].amortization[current_date].principle]_vars

\* C15: when an account that has an amortization table is preciated on a
\* date for which the table has no entry, its value is unchanged and no
\* error ends the run because of it, whatever the account's name.
C15_MissingEntrySkipsPreciation ==
  [][LET i == last'.obj
     IN  (last'.op = "DispatchPreciation" /\ DOMAIN objs[i].amortization # {}
            /\ DateOf(objs[i].cur) \notin DOMAIN objs[i].amortization) =>
           /\ objs'[i].value = objs[i].value
           /\ err' \in {None, "CronError"}]_vars

\* C16: Preciate changes only the value of the account it is called on: the
\* account's schedule cursor (hence the current and next dates of a second
\* call), its amortization table and every other attribute, every other
\* account, the registry and both queues stay as they were.
C16_PreciateChangesOnlyValue ==
  [][(last'.op = "Preciate" /\ err' = None) =>
       LET i == last'.obj
       IN  /\ objs' = [objs EXCEPT ![i].value = objs'[i].value]
           /\ accounts' = accounts
           /\ flows' = flows
           /\ cashflows' = cashflows
           /\ preciations' = preciations]_vars

\* A second successive Preciate call has changed a value once more, with the
\* schedule cursor where the configuration was loaded.
C16_Witness ==
  /\ last.op = "Preciate"
  /\ err = None
  /\ Len(preciated[last.obj]) = 2
  /\ objs[last.obj].value # gl_proto.account[last.obj].value
  /\ objs[last.obj].cur = now

\* C17: of the events of one category queued under a date, the one appended
\* to the date's list most recently is dispatched first, and the ones
\* appended before it stay queued in their order.
C17_LastInFirstOut ==
  [][/\ last'.op = "DispatchCashflow" =>
          LET q == cashflows[loop_date]
          IN  /\ last'.obj = q[Len(q)]
              /\ SubSeq(cashflows'[loop_date], 1, Len(q) - 1) = SubSeq(q, 1, Len(q) - 1)
     /\ last'.op = "DispatchPreciation" =>
          LET q == preciations[loop_date]
          IN  /\ last'.obj = q[Len(q)]
              /\ SubSeq(preciations'[loop_date], 1, Len(q) - 1) = SubSeq(q, 1, Len(q) - 1)]_vars

\* Of two cashflows queued under the day, the second loaded has been applied
\* and the first loaded is still waiting.
C17_Witness ==
  /\ last.op = "DispatchCashflow"
  /\ err = None
  /\ Len(flows) = 2
  /\ last.obj = 2
  /\ applied[2] = <<loop_date>>
  /\ applied[1] = <<>>
  /\ cashflows[loop_date] = <<1>>

\* C18: a cashflow with a start date is never applied on a day before it,
\* and a cashflow with an end date never on a day after it.
C18_FlowAppliedWithinItsBounds ==
  \A i \in 1..Len(flows) : \A k \in 1..Len(applied[i]) :
    /\ flows[i].starting # NoDate => applied[i][k] >= flows[i].starting
    /\ flows[i].ending # NoDate => applied[i][k] <= flows[i].ending

\* C19: at every day boundary (before the first day and after each day's
\* three steps) every cashflow and every account with a schedule is in
\* exactly one slot of its queue, under the date of its own schedule cursor,
\* and that date is later than the day just processed.
C19_QueuedOnceUnderCursorDate ==
  pc = "loop" =>
    /\ \A i \in 1..Len(flows) :
         \E sl \in Slots(cashflows, i) :
           Slots(cashflows, i) = {sl} /\ sl[1] = DateOf(flows[i].cur) /\ sl[1] > loop_date
    /\ \A i \in 1..Len(objs) :
         objs[i].timespec # NoSpec =>
           \E sl \in Slots(preciations, i) :
             Slots(preciations, i) = {sl} /\ sl[1] = DateOf(objs[i].cur) /\ sl[1] > loop_date

\* C20: at the end of every simulated day, after the sweep step has visited
\* every account, every registered account with a sweep_out rule has a value
\* that is not above the rule's watermark.
C20_SweptAccountsAtOrBelowWatermark ==
  last.op = "SweepDone" =>
    \A i \in Registered :
      objs[i].sweep_out # NoRule => objs[i].value <= objs[i].sweep_out.amount

\* C21: every run eventually stops, at the end of the loop or with an error,
\* and on every day the loop that drains the due cashflows and the loop that
\* drains the due preciations are left, also when a schedule has several
\* occurrences on one date.
C21_EveryRunStops ==
  /\ <>(pc \in {"done", "error"})
  /\ (pc = "cashflows") ~> (pc # "cashflows")
  /\ (pc = "preciations") ~> (pc # "preciations")

\* A run has ended at end_date after a cashflow was popped and queued again
\* twice under one date.
C21_Witness ==
  /\ pc = "done"
  /\ loop_date = end_date
  /\ \E i \in 1..Len(flows) :
       \E k \in 1..(Len(applied[i]) - 1) : applied[i][k] = applied[i][k + 1]

====
